---- MODULE Spec2Model ----
(***************************************************************************)
(* State-machine model of ids7client/ai/client.py: the IDS7AIClient class. *)
(*                                                                         *)
(* One client object is followed from before its construction.  The caller *)
(* constructs it (__init__, which negotiates the server versions through   *)
(* GET /info) and then calls the four public operations one after another  *)
(* (the client is synchronous).  The server and the network are the        *)
(* environment: every attempt of a request either fails at connection      *)
(* level or is answered with some status code and some body text.          *)
(*                                                                         *)
(* Strings are TLA+ strings and paths are built by concatenation as the    *)
(* f-strings of the source build them.  Python dicts are functions from    *)
(* keys to values.  A call either returns a value or raises an exception;  *)
(* both are records (Returned, Raised).                                    *)
(***************************************************************************)
EXTENDS Naturals, Sequences, FiniteSets, TLC

VARIABLES
    phase,          \* "new" | "constructing" | "ready" | "failed": life of the object
    pc,             \* "idle" | "running": whether a call is inside its transport loop
    _url,           \* self._url
    _token,         \* self._token
    _app_id,        \* self._app_id
    _headers,       \* self._headers (dict)
    ids7_version,   \* self.ids7_version
    call,           \* frame of the call in progress (or of the last one)
    attempts,       \* invocations of the wrapped transport method made for `call`
    result,         \* what the last finished call delivered to its caller
    firstReq,       \* first HTTP request ever put on the wire by this client
    lastReq,        \* most recent HTTP request put on the wire
    lastResp,       \* what the environment answered to lastReq
    infoResp        \* the /info response that completed a successful construction

clientState == <<_url, _token, _app_id, _headers, ids7_version>>
wire == <<firstReq, lastReq, lastResp, infoResp>>
vars == <<phase, pc, _url, _token, _app_id, _headers, ids7_version,
          call, attempts, result, firstReq, lastReq, lastResp, infoResp>>

----------------------------------------------------------------------------
(* Bounds of the inputs the caller and the environment choose from.        *)

NumTokens == 2
NumAppIds == 2
NumIds == 2

Urls == {"https://ids7.example"}
Tokens == {"tok" \o ToString(i) : i \in 1..NumTokens}
AppIds == {"app" \o ToString(i) : i \in 1..NumAppIds}
Ids == {"id" \o ToString(i) : i \in 1..NumIds}

(* Status codes the server may answer with: the two success codes the      *)
(* client expects, another 2xx code and an error code.                     *)
StatusCodes == {200, 201, 204, 404}

(* Body texts the server may answer with, and the JSON value each parses   *)
(* to.  "Not Found" is not JSON.                                           *)
JsonOf ==
    ("{apiVersion:1.0,softwareVersion:7.2}" :>
        [apiVersion |-> "1.0", softwareVersion |-> "7.2"])
    @@ ("{apiVersion:2.0,softwareVersion:7.3}" :>
        [apiVersion |-> "2.0", softwareVersion |-> "7.3"])
    @@ ("{apiVersion:1.0}" :> [apiVersion |-> "1.0"])
    @@ ("{id:abc123,score:0.9}" :> [id |-> "abc123", score |-> "0.9"])
    @@ ("{score:0.9}" :> [score |-> "0.9"])

Texts == DOMAIN JsonOf \cup {"Not Found"}

(* Result objects the caller may supply.                                   *)
Results ==
    { [cls |-> "Result", fields |-> [score |-> "0.9"]],
      [cls |-> "Result", fields |-> [score |-> "0.1", label |-> "tumor"]] }

----------------------------------------------------------------------------
(* Values.                                                                 *)

None == [kind |-> "none"]
NoReq == [method |-> "none"]
NoResp == [kind |-> "none"]
NoCall == [op |-> "none"]
Unset == "<unset>"
EmptyDict == <<>>

Returned(v) == [kind |-> "return", value |-> v]
Raised(e) == [kind |-> "raise", error |-> e]

ConnectionFailure == [kind |-> "connection_failure"]
Response(s, t) == [kind |-> "response", status_code |-> s, text |-> t]
ServerOutcomes ==
    {ConnectionFailure} \cup {Response(s, t) : s \in StatusCodes, t \in Texts}

(* Exceptions.                                                             *)
IDS7RequestError(status_code, text, path) ==
    [type |-> "IDS7RequestError", status_code |-> status_code,
     text |-> text, path |-> path]
ConnectionError == [type |-> "ConnectionError"]
JSONDecodeError == [type |-> "JSONDecodeError"]
ValidationError(cls) == [type |-> "ValidationError", cls |-> cls]

----------------------------------------------------------------------------
(* Collaborators that live outside client.py: the record types of          *)
(* .schemas, Result.model_dump and the connection_retry decorator of       *)
(* ids7client.helpers.                                                     *)

RequiredFields(cls) ==
    CASE cls = "ApplicationInfo" -> {"apiVersion", "softwareVersion"}
      [] cls = "ImageInfo" -> {"id"}
      [] cls = "ResultResponse" -> {"id"}

(* The constructor call of a record type on a dict: the typed record, or a  *)
(* validation error when a required field is missing.                      *)
Validate(cls, d) ==
    IF RequiredFields(cls) \subseteq DOMAIN d
    THEN Returned([cls |-> cls, fields |-> d])
    ELSE Raised(ValidationError(cls))

ApplicationInfo(d) == Validate("ApplicationInfo", d)
ImageInfo(d) == Validate("ImageInfo", d)
ResultResponse(d) == Validate("ResultResponse", d)

(* results.model_dump(): the plain dict of a Result object.                *)
model_dump(results) == results.fields

(* connection_retry: the decorated method is invoked again when it raised  *)
(* a connection-level error and fewer than MaxAttempts invocations were    *)
(* made; any other exception, and any return, ends the loop.               *)
MaxAttempts == 3

(* Variant of the decorator that loops on any exception.                   *)
connection_retry_any_error(outcome, made) ==
    /\ outcome.kind = "raise"
    /\ made < MaxAttempts

(* Variant of the decorator that gives up after the first invocation.      *)
connection_retry_once(outcome, made) ==
    /\ outcome.kind = "raise"
    /\ outcome.error.type = "ConnectionError"
    /\ made < 1

connection_retry(outcome, made) ==
    /\ outcome.kind = "raise"
    /\ outcome.error.type = "ConnectionError"
    /\ made < MaxAttempts

----------------------------------------------------------------------------
(* The transport methods of the client, one invocation each.  `resp` is    *)
(* what the environment does with the request (ServerOutcomes).            *)

(* resp.json()                                                             *)
resp_json(resp) ==
    IF resp.text \in DOMAIN JsonOf
    THEN Returned(JsonOf[resp.text])
    ELSE Raised(JSONDecodeError)

(* requests.get(url, params=kwargs, headers=self._headers)                 *)
_get_request(self_url, self_headers, path, kwargs) ==
    [method |-> "GET", url |-> self_url \o path, params |-> kwargs,
     headers |-> self_headers]

_get(path, resp) ==
    IF resp.kind = "connection_failure" THEN Raised(ConnectionError)
    ELSE IF resp.status_code # 200
    THEN Raised(IDS7RequestError(resp.status_code, resp.text, path))
    ELSE resp_json(resp)

(* requests.post(url, json=payload, headers=self._headers)                 *)
_post_request(self_url, self_headers, path, payload) ==
    [method |-> "POST", url |-> self_url \o path, json |-> payload,
     headers |-> self_headers]

(* Variant of _post that expects 200, as _get and _put do.                 *)
_post_expecting_200(path, parse_response, resp) ==
    IF resp.kind = "connection_failure" THEN Raised(ConnectionError)
    ELSE IF resp.status_code # 200
    THEN Raised(IDS7RequestError(resp.status_code, resp.text, path))
    ELSE IF parse_response THEN resp_json(resp)
    ELSE Returned(None)

_post(path, parse_response, resp) ==
    IF resp.kind = "connection_failure" THEN Raised(ConnectionError)
    ELSE IF resp.status_code # 201
    THEN Raised(IDS7RequestError(resp.status_code, resp.text, path))
    ELSE IF parse_response THEN resp_json(resp)
    ELSE Returned(None)

(* requests.put(url, json=values, headers=self._headers)                   *)
_put_request(self_url, self_headers, path, values) ==
    [method |-> "PUT", url |-> self_url \o path, json |-> values,
     headers |-> self_headers]

_put(path, parse_response, resp) ==
    IF resp.kind = "connection_failure" THEN Raised(ConnectionError)
    ELSE IF resp.status_code # 200
    THEN Raised(IDS7RequestError(resp.status_code, resp.text, path))
    ELSE IF parse_response THEN resp_json(resp)
    ELSE Returned(None)

----------------------------------------------------------------------------
(* The public operations: the request each one asks for, and what it does  *)
(* with the payload its transport method returned.                         *)

(* Variant of the initial header dict with the version keys already there. *)
initial_headers_with_versions(token) ==
    ("Authorization" :> ("Bearer " \o token))
    @@ ("X-Sectra-ApiVersion" :> "")
    @@ ("X-Sectra-SoftwareVersion" :> "")

(* self._headers = {"Authorization": f"Bearer {token}"}                    *)
initial_headers(token) == "Authorization" :> ("Bearer " \o token)

info_path == "/info"

(* Variant of _retrieve_ids7_versions that swallows a failure of the       *)
(* request or of the validation and returns nothing.                       *)
_retrieve_ids7_versions_swallowing(self_headers, got) ==
    IF got.kind = "raise"
    THEN [outcome |-> Returned(None), headers |-> self_headers]
    ELSE LET versions == ApplicationInfo(got.value) IN
         IF versions.kind = "raise"
         THEN [outcome |-> Returned(None), headers |-> self_headers]
         ELSE [outcome |-> versions,
               headers |->
                   ("X-Sectra-ApiVersion" :> versions.value.fields.apiVersion)
                   @@ ("X-Sectra-SoftwareVersion" :>
                           versions.value.fields.softwareVersion)
                   @@ self_headers]

(* Variant of _retrieve_ids7_versions with the two header values swapped.  *)
_retrieve_ids7_versions_swapped(self_headers, got) ==
    IF got.kind = "raise" THEN [outcome |-> got, headers |-> self_headers]
    ELSE LET versions == ApplicationInfo(got.value) IN
         IF versions.kind = "raise"
         THEN [outcome |-> versions, headers |-> self_headers]
         ELSE [outcome |-> versions,
               headers |->
                   ("X-Sectra-ApiVersion" :>
                           versions.value.fields.softwareVersion)
                   @@ ("X-Sectra-SoftwareVersion" :>
                           versions.value.fields.apiVersion)
                   @@ self_headers]

(* _retrieve_ids7_versions, from the outcome of self._get("/info"): the    *)
(* outcome it delivers and the header dict it leaves.                      *)
_retrieve_ids7_versions(self_headers, got) ==
    IF got.kind = "raise" THEN [outcome |-> got, headers |-> self_headers]
    ELSE LET versions == ApplicationInfo(got.value) IN
         IF versions.kind = "raise"
         THEN [outcome |-> versions, headers |-> self_headers]
         ELSE [outcome |-> versions,
               headers |->
                   ("X-Sectra-ApiVersion" :> versions.value.fields.apiVersion)
                   @@ ("X-Sectra-SoftwareVersion" :>
                           versions.value.fields.softwareVersion)
                   @@ self_headers]

get_image_info_path(slide_id) == "/slides/" \o slide_id \o "/info"

(* Variant of the query parameters that sends a false flag as a value.     *)
get_image_info_params_explicit(extended, phi) ==
    ("includePHI" :> (IF phi THEN "true" ELSE "false"))
    @@ (IF extended THEN "scope" :> "extended" ELSE EmptyDict)

get_image_info_params(extended, phi) ==
    (IF phi THEN "includePHI" :> "true" ELSE EmptyDict)
    @@ (IF extended THEN "scope" :> "extended" ELSE EmptyDict)

get_image_info_return(got) ==
    IF got.kind = "raise" THEN got ELSE ImageInfo(got.value)

create_results_path(self_app_id) ==
    "/applications/" \o self_app_id \o "/results"

create_results_payload(results) == model_dump(results)

create_results_return(got) ==
    IF got.kind = "raise" THEN got ELSE ResultResponse(got.value)

(* Variant of the get_results path with the plural of create_results.      *)
get_results_path_plural(self_app_id, id) ==
    "/applications/" \o self_app_id \o "/results/" \o id

get_results_path(self_app_id, id) ==
    "/application/" \o self_app_id \o "/results/" \o id

(* Variant of the return of get_results that hands the payload back as it  *)
(* came, without building the record.                                      *)
get_results_return_unvalidated(got) == got

get_results_return(got) ==
    IF got.kind = "raise" THEN got ELSE ResultResponse(got.value)

update_results_path(self_app_id, id) ==
    "/application/" \o self_app_id \o "/results/" \o id

update_results_payload(results) == model_dump(results)

update_results_return(got) ==
    IF got.kind = "raise" THEN got ELSE ResultResponse(got.value)

----------------------------------------------------------------------------
(* The state machine.                                                      *)

Init ==
    /\ phase = "new"
    /\ pc = "idle"
    /\ _url = Unset
    /\ _token = Unset
    /\ _app_id = Unset
    /\ _headers = EmptyDict
    /\ ids7_version = None
    /\ call = NoCall
    /\ attempts = 0
    /\ result = None
    /\ firstReq = NoReq
    /\ lastReq = NoReq
    /\ lastResp = NoResp
    /\ infoResp = NoResp

(* A call frame: the operation and its arguments, and the transport method, *)
(* path, query parameters and body it asks for.                            *)
Frame(op, args, method, path, params, payload) ==
    [op |-> op, args |-> args, method |-> method, path |-> path,
     params |-> params, payload |-> payload]

(* A call enters its (decorated) transport method.                         *)
Enter(frame) ==
    /\ pc = "idle"
    /\ pc' = "running"
    /\ call' = frame
    /\ attempts' = 0
    /\ result' = None
    /\ UNCHANGED wire

(* IDS7AIClient(url, token, app_id), up to the call of self._get("/info"). *)
__init__(url, token, app_id) ==
    /\ phase = "new"
    /\ phase' = "constructing"
    /\ _url' = url
    /\ _token' = token
    /\ _app_id' = app_id
    /\ _headers' = initial_headers(token)
    /\ UNCHANGED ids7_version
    /\ Enter(Frame("__init__",
                   [url |-> url, token |-> token, app_id |-> app_id],
                   "GET", info_path, EmptyDict, EmptyDict))

(* Variant of get_image_info that keeps its query parameters in the header *)
(* dict of the client.                                                     *)
get_image_info_keeping_params(slide_id, extended, phi) ==
    /\ phase = "ready"
    /\ Enter(Frame("get_image_info",
                   [slide_id |-> slide_id, extended |-> extended, phi |-> phi],
                   "GET", get_image_info_path(slide_id),
                   get_image_info_params(extended, phi), EmptyDict))
    /\ _headers' = get_image_info_params(extended, phi) @@ _headers
    /\ UNCHANGED <<phase, _url, _token, _app_id, ids7_version>>

get_image_info(slide_id, extended, phi) ==
    /\ phase = "ready"
    /\ Enter(Frame("get_image_info",
                   [slide_id |-> slide_id, extended |-> extended, phi |-> phi],
                   "GET", get_image_info_path(slide_id),
                   get_image_info_params(extended, phi), EmptyDict))
    /\ UNCHANGED <<phase, clientState>>

create_results(results) ==
    /\ phase = "ready"
    /\ Enter(Frame("create_results", [results |-> results],
                   "POST", create_results_path(_app_id),
                   EmptyDict, create_results_payload(results)))
    /\ UNCHANGED <<phase, clientState>>

get_results(id) ==
    /\ phase = "ready"
    /\ Enter(Frame("get_results", [id |-> id],
                   "GET", get_results_path(_app_id, id),
                   EmptyDict, EmptyDict))
    /\ UNCHANGED <<phase, clientState>>

update_results(id, results) ==
    /\ phase = "ready"
    /\ Enter(Frame("update_results", [id |-> id, results |-> results],
                   "PUT", update_results_path(_app_id, id),
                   EmptyDict, update_results_payload(results)))
    /\ UNCHANGED <<phase, clientState>>

(* The HTTP request one invocation of the transport method of `c` sends.   *)
Request(c) ==
    CASE c.method = "GET" -> _get_request(_url, _headers, c.path, c.params)
      [] c.method = "POST" -> _post_request(_url, _headers, c.path, c.payload)
      [] c.method = "PUT" -> _put_request(_url, _headers, c.path, c.payload)

(* What that invocation returns or raises when the environment does resp.  *)
Invoke(c, resp) ==
    CASE c.method = "GET" -> _get(c.path, resp)
      [] c.method = "POST" -> _post(c.path, TRUE, resp)
      [] c.method = "PUT" -> _put(c.path, TRUE, resp)

(* What the public operation makes of its transport method's outcome.      *)
Deliver(op, got) ==
    CASE op = "get_image_info" -> get_image_info_return(got)
      [] op = "create_results" -> create_results_return(got)
      [] op = "get_results" -> get_results_return(got)
      [] op = "update_results" -> update_results_return(got)

(* One invocation: the request goes out and the environment does resp.     *)
Exchange(resp) ==
    /\ pc = "running"
    /\ lastReq' = Request(call)
    /\ firstReq' = IF firstReq = NoReq THEN Request(call) ELSE firstReq
    /\ lastResp' = resp
    /\ attempts' = attempts + 1

(* The invocation raised a connection error and the decorator loops.       *)
Retry ==
    \E resp \in ServerOutcomes :
        /\ Exchange(resp)
        /\ connection_retry(Invoke(call, resp), attempts + 1)
        /\ UNCHANGED <<phase, pc, clientState, call, result, infoResp>>

(* The last invocation of self._get("/info"), and the rest of              *)
(* _retrieve_ids7_versions and __init__.                                   *)
FinishInit ==
    \E resp \in ServerOutcomes :
        /\ phase = "constructing"
        /\ Exchange(resp)
        /\ ~connection_retry(Invoke(call, resp), attempts + 1)
        /\ LET r == _retrieve_ids7_versions(_headers, Invoke(call, resp)) IN
            /\ _headers' = r.headers
            /\ IF r.outcome.kind = "return"
               THEN /\ ids7_version' = r.outcome.value
                    /\ phase' = "ready"
                    /\ result' = Returned(None)
                    /\ infoResp' = resp
               ELSE /\ phase' = "failed"
                    /\ result' = r.outcome
                    /\ UNCHANGED <<ids7_version, infoResp>>
        /\ pc' = "idle"
        /\ UNCHANGED <<_url, _token, _app_id, call>>

(* The last invocation of a public operation's transport method, and the   *)
(* operation's return.                                                     *)
FinishCall ==
    \E resp \in ServerOutcomes :
        /\ phase = "ready"
        /\ Exchange(resp)
        /\ ~connection_retry(Invoke(call, resp), attempts + 1)
        /\ result' = Deliver(call.op, Invoke(call, resp))
        /\ pc' = "idle"
        /\ UNCHANGED <<phase, clientState, call, infoResp>>

Next ==
    \/ \E url \in Urls, token \in Tokens, app_id \in AppIds :
            __init__(url, token, app_id)
    \/ \E slide_id \in Ids, extended \in BOOLEAN, phi \in BOOLEAN :
            get_image_info(slide_id, extended, phi)
    \/ \E results \in Results : create_results(results)
    \/ \E id \in Ids : get_results(id)
    \/ \E id \in Ids, results \in Results : update_results(id, results)
    \/ Retry
    \/ FinishInit
    \/ FinishCall

Spec == Init /\ [][Next]_vars

----------------------------------------------------------------------------
(* Properties.                                                             *)

PublicOps == {"get_image_info", "create_results", "get_results",
              "update_results"}

(* The success status the interface table gives each method.               *)
Expected(method) == IF method = "POST" THEN 201 ELSE 200

(* The record type each operation's response is validated as.              *)
Target(op) ==
    CASE op = "__init__" -> "ApplicationInfo"
      [] op = "get_image_info" -> "ImageInfo"
      [] op \in {"create_results", "get_results", "update_results"} ->
            "ResultResponse"

(* lastReq was sent by the public operation in `call`.                     *)
SentByPublicOp == call.op \in PublicOps /\ attempts > 0

(* A call has finished and lastResp is the response that finished it.      *)
FinishedOnResponse ==
    pc = "idle" /\ call # NoCall /\ lastResp.kind = "response"

(* C1: every request a public operation sends carries exactly the headers  *)
(* Authorization: Bearer <token>, X-Sectra-ApiVersion and                  *)
(* X-Sectra-SoftwareVersion, the two version headers holding the           *)
(* apiVersion and softwareVersion of the /info response of construction.   *)
C1_VersionHeadersOnEveryRequest ==
    SentByPublicOp =>
        lastReq.headers =
            ("Authorization" :> ("Bearer " \o _token))
            @@ ("X-Sectra-ApiVersion" :> JsonOf[infoResp.text].apiVersion)
            @@ ("X-Sectra-SoftwareVersion" :>
                    JsonOf[infoResp.text].softwareVersion)

C1_Witness ==
    /\ call.op = "create_results"
    /\ attempts = 2
    /\ _token = "tok2"
    /\ lastReq.headers["X-Sectra-ApiVersion"] = "2.0"
    /\ lastReq.headers["X-Sectra-SoftwareVersion"] = "7.3"

(* C2: a finished call returned only if the response had the expected      *)
(* status (200 for GET and PUT, 201 for POST); on any other received       *)
(* status it raised the request error carrying that status code, the body  *)
(* text and the request path, and returned no record.                      *)
C2_ExactSuccessStatus ==
    FinishedOnResponse =>
        /\ result.kind = "return" =>
                lastResp.status_code = Expected(call.method)
        /\ lastResp.status_code # Expected(call.method) =>
                result = Raised(IDS7RequestError(lastResp.status_code,
                                                 lastResp.text, call.path))

C2_Witness ==
    /\ FinishedOnResponse
    /\ call.op = "create_results"
    /\ lastResp.status_code = 200
    /\ lastResp.text = "{id:abc123,score:0.9}"
    /\ result.kind = "raise"
    /\ result.error.type = "IDS7RequestError"
    /\ result.error.status_code = 200

(* C5: the GET of get_image_info(slide_id, extended, phi) has the query    *)
(* key scope (with value extended) iff extended, the key includePHI (with  *)
(* value true) iff phi, and no other key.                                  *)
C5_QueryFlags ==
    (call.op = "get_image_info" /\ attempts > 0) =>
        /\ lastReq.method = "GET"
        /\ DOMAIN lastReq.params \subseteq {"scope", "includePHI"}
        /\ "scope" \in DOMAIN lastReq.params <=> call.args.extended
        /\ "includePHI" \in DOMAIN lastReq.params <=> call.args.phi
        /\ call.args.extended => lastReq.params["scope"] = "extended"
        /\ call.args.phi => lastReq.params["includePHI"] = "true"

C5_Witness ==
    /\ call.op = "get_image_info"
    /\ attempts > 0
    /\ call.args.extended
    /\ ~call.args.phi
    /\ lastReq.params = [scope |-> "extended"]

(* C6: each public operation sends the method and path of the interface    *)
(* table, built from the application id of the client, and create_results  *)
(* and update_results send the serialized Result supplied as body.         *)
C6_MethodAndPath ==
    SentByPublicOp =>
        CASE call.op = "create_results" ->
                /\ lastReq.method = "POST"
                /\ lastReq.url = _url \o "/applications/" \o _app_id
                                      \o "/results"
                /\ lastReq.json = model_dump(call.args.results)
          [] call.op = "get_results" ->
                /\ lastReq.method = "GET"
                /\ lastReq.url = _url \o "/application/" \o _app_id
                                      \o "/results/" \o call.args.id
          [] call.op = "update_results" ->
                /\ lastReq.method = "PUT"
                /\ lastReq.url = _url \o "/application/" \o _app_id
                                      \o "/results/" \o call.args.id
                /\ lastReq.json = model_dump(call.args.results)
          [] call.op = "get_image_info" ->
                /\ lastReq.method = "GET"
                /\ lastReq.url = _url \o "/slides/" \o call.args.slide_id
                                      \o "/info"

C6_Witness ==
    /\ call.op = "get_results"
    /\ attempts > 0
    /\ lastReq.method = "GET"
    /\ lastReq.url = "https://ids7.example/application/app2/results/id1"

(* C3: an attempt answered with a status other than the expected one ends  *)
(* the call with the request error, and a call stays in its retry loop     *)
(* only after a connection failure.                                        *)
C3_NoRetryOnStatus ==
    [][ (pc = "running" /\ attempts' = attempts + 1) =>
            /\ (lastResp'.kind = "response"
                    /\ lastResp'.status_code # Expected(call.method)) =>
                    /\ pc' = "idle"
                    /\ result' = Raised(IDS7RequestError(
                            lastResp'.status_code, lastResp'.text, call.path))
            /\ pc' = "running" => lastResp' = ConnectionFailure ]_vars

C3_Witness ==
    /\ pc = "idle"
    /\ call.op = "update_results"
    /\ attempts = 2
    /\ lastResp.kind = "response"
    /\ lastResp.status_code = 404
    /\ result.kind = "raise"

(* The body of a response that has the expected status parses as JSON and  *)
(* has the required fields of the record type of the operation.            *)
ValidBody(c, resp) ==
    /\ resp.text \in DOMAIN JsonOf
    /\ RequiredFields(Target(c.op)) \subseteq DOMAIN JsonOf[resp.text]

FinishedAfterRetry ==
    /\ FinishedOnResponse
    /\ attempts > 1
    /\ lastResp.status_code = Expected(call.method)

Bounded ==
    /\ attempts <= MaxAttempts
    /\ pc = "running" => attempts < MaxAttempts
    /\ (pc = "idle" /\ call # NoCall /\ lastResp = ConnectionFailure) =>
            /\ attempts = MaxAttempts
            /\ result = Raised(ConnectionError)

(* C4 as stated: a call whose attempts failed at connection level and      *)
(* whose later attempt, within the bound, received the expected status     *)
(* returns with no error; and a call makes at most MaxAttempts attempts,   *)
(* ending with an error when all of them failed at connection level.       *)
C4_AsStated ==
    /\ FinishedAfterRetry => result.kind = "return"
    /\ Bounded

(* C4 amended: the same, for a later attempt that received the expected    *)
(* status and a body that validates as the operation's record type.        *)
C4_RetryMasksAndIsBounded ==
    /\ (FinishedAfterRetry /\ ValidBody(call, lastResp)) =>
            result.kind = "return"
    /\ Bounded

C4_Witness ==
    /\ FinishedAfterRetry
    /\ ValidBody(call, lastResp)
    /\ call.op = "create_results"
    /\ attempts = MaxAttempts
    /\ result.kind = "return"
    /\ result.value.cls = "ResultResponse"

(* The /info request of the construction failed: a status other than 200,  *)
(* or connection failures up to the retry bound.                           *)
InfoFailed ==
    /\ pc = "idle"
    /\ call.op = "__init__"
    /\ \/ lastResp = ConnectionFailure
       \/ lastResp.kind = "response" /\ lastResp.status_code # 200

(* C7: when the /info request fails, the construction raises the error of  *)
(* the request as any failed GET does, no client is made, and a client     *)
(* that is not constructed has sent nothing but GET /info.                 *)
C7_FailedConstruction ==
    /\ InfoFailed =>
            /\ phase = "failed"
            /\ ids7_version = None
            /\ lastResp.kind = "response" =>
                    result = Raised(IDS7RequestError(lastResp.status_code,
                                                     lastResp.text, "/info"))
            /\ lastResp = ConnectionFailure =>
                    result = Raised(ConnectionError)
    /\ phase # "ready" =>
            /\ call.op \notin PublicOps
            /\ lastReq # NoReq =>
                    /\ lastReq.method = "GET"
                    /\ lastReq.url = _url \o "/info"

C7_Witness ==
    /\ InfoFailed
    /\ phase = "failed"
    /\ attempts = 2
    /\ lastResp.kind = "response"
    /\ lastResp.status_code = 404
    /\ result.error.type = "IDS7RequestError"

(* A response with the expected status whose JSON body lacks a required    *)
(* field of the record type of the operation.                              *)
LacksRequiredField(c, resp) ==
    /\ resp.kind = "response"
    /\ resp.status_code = Expected(c.method)
    /\ resp.text \in DOMAIN JsonOf
    /\ ~(RequiredFields(Target(c.op)) \subseteq DOMAIN JsonOf[resp.text])

(* C8: an attempt answered with the expected status and a body that lacks  *)
(* a required field ends the call, in that step, with a validation error   *)
(* and not a request error; no further request of the call follows.        *)
C8_ValidationErrorNotRetried ==
    [][ (pc = "running" /\ attempts' = attempts + 1
            /\ LacksRequiredField(call, lastResp')) =>
            /\ pc' = "idle"
            /\ result' = Raised(ValidationError(Target(call.op))) ]_vars

C8_Witness ==
    /\ pc = "idle"
    /\ call.op = "get_image_info"
    /\ LacksRequiredField(call, lastResp)
    /\ result.kind = "raise"
    /\ result.error.type = "ValidationError"

(* C9: once the client is constructed, no step of any public operation     *)
(* changes its base URL, token, application id, cached ApplicationInfo or  *)
(* header dict, and the client stays constructed.                          *)
C9_ClientStateFrozen ==
    [][ phase = "ready" => (phase' = "ready" /\ UNCHANGED clientState) ]_vars

C9_Witness ==
    /\ phase = "ready"
    /\ pc = "idle"
    /\ call.op = "update_results"
    /\ attempts = MaxAttempts
    /\ result.kind = "raise"
    /\ result.error.type = "ValidationError"

AuthorizationOnly == "Authorization" :> ("Bearer " \o _token)

(* C10: the first request of the client is GET /info with the              *)
(* Authorization header alone; until the /info response has status 200 and *)
(* validates, the header dict is Authorization alone; and from then on the *)
(* two version headers equal the fields of the cached ids7_version.        *)
C10_ConstructionOrder ==
    /\ firstReq # NoReq =>
            firstReq = [method |-> "GET", url |-> _url \o "/info",
                        params |-> EmptyDict, headers |-> AuthorizationOnly]
    /\ phase \in {"constructing", "failed"} =>
            /\ _headers = AuthorizationOnly
            /\ ids7_version = None
    /\ phase = "ready" =>
            /\ infoResp.kind = "response"
            /\ infoResp.status_code = 200
            /\ infoResp.text \in DOMAIN JsonOf
            /\ {"apiVersion", "softwareVersion"} \subseteq
                    DOMAIN JsonOf[infoResp.text]
            /\ ids7_version.fields = JsonOf[infoResp.text]
            /\ DOMAIN _headers = {"Authorization", "X-Sectra-ApiVersion",
                                  "X-Sectra-SoftwareVersion"}
            /\ _headers["Authorization"] = "Bearer " \o _token
            /\ _headers["X-Sectra-ApiVersion"] =
                    ids7_version.fields.apiVersion
            /\ _headers["X-Sectra-SoftwareVersion"] =
                    ids7_version.fields.softwareVersion

C10_Witness ==
    /\ phase = "failed"
    /\ lastResp.kind = "response"
    /\ lastResp.status_code = 200
    /\ lastResp.text = "{apiVersion:1.0}"
    /\ _headers = AuthorizationOnly
    /\ firstReq.headers = AuthorizationOnly

====
